---- MODULE Spec2Model ----
(***************************************************************************)
(* gitreverter: analysis and cascading revert of a linear commit history   *)
(* on a temporary branch (src/gitreverter.py).                             *)
(*                                                                         *)
(* The repository (object store, references, HEAD, on-disk index, working  *)
(* directory) is shared state.  Each process p runs one command-line       *)
(* invocation at a time: main() builds a GitReverter and calls one of      *)
(* test_all_single_revert, revert_all_reverse or cleanup_branches.  Every  *)
(* blocking call on the repository is one step of the process.             *)
(***************************************************************************)
EXTENDS Integers, Sequences, FiniteSets, TLC

\* ------------------------------------------------------------------ bounds
MaxInitLen == 2      \* longest history the repository starts with
MaxCommits == 4      \* commits the object store may hold
MaxTime == 2         \* seconds the wall clock can show (1..MaxTime)
MaxContent == 2      \* contents a file can have (0 = the file is absent)
MaxPrefixLen == 1    \* longest commit hash prefix given on the command line

IdLen == MaxPrefixLen + 1    \* digits of a commit id
IdBase == MaxInitLen + 1     \* values of one digit of a commit id

Procs == {1, 2}
Files == {"f"}
Trees == [Files -> 0..MaxContent]
EmptyTree == [f \in Files |-> 0]
Digits == 0..(IdBase - 1)

VARIABLES
  commits,    \* object store: commit number -> [parents, message, tree]
  refs,       \* local branches: name -> commit number (0 = no such branch)
  HEAD,       \* the checked-out branch (repo.head.name)
  index,      \* the repository's on-disk index (repo.index)
  workdir,    \* the working directory's tree
  clock,      \* the wall clock, in seconds
  self,       \* per process: the GitReverter object's fields
  frame,      \* per process: position, arguments and locals of the invocation
  pre         \* per process: the repository as it was when the invocation began

vars == <<commits, refs, HEAD, index, workdir, clock, self, frame, pre>>

\* ------------------------------------------------------------ branch names
\* A branch name is <<stem, suffix>>: <<"main", 0>> is "main" and
\* <<"git_reverter_", t>> is "git_reverter_" followed by the timestamp t.
TMP_PREFIX == "git_reverter_"
Main == <<"main", 0>>
TmpName(t) == <<TMP_PREFIX, t>>
BranchNames == {Main} \cup {TmpName(t) : t \in 1..MaxTime}
NoBranch == <<"", 0>>

\* Variant: every branch counts as a temporary branch.
IsTmpBranch_all(b) == TRUE

\* branch.startswith("git_reverter_")
IsTmpBranch(b) == b[1] = TMP_PREFIX

\* Branch names in the order the repository lists them (sorted by name).
NameLess(a, b) ==
  LET rank(x) == IF IsTmpBranch(x) THEN x[2] ELSE MaxTime + 1
  IN rank(a) < rank(b)

RECURSIVE SortedBranches(_)
SortedBranches(S) ==
  IF S = {} THEN <<>>
  ELSE LET m == CHOOSE x \in S : \A y \in S \ {x} : NameLess(x, y)
       IN <<m>> \o SortedBranches(S \ {m})

ListBranches(rs) == SortedBranches({b \in BranchNames : rs[b] # 0})

\* --------------------------------------------------------- the object store
\* str(commit.id): the id of commit number n, IdLen digits.  Ids are hashes:
\* commits made one after the other differ in their first digit already.
RECURSIVE DigitsOf(_, _)
DigitsOf(n, len) ==
  IF len = 0 THEN <<>> ELSE <<n % IdBase>> \o DigitsOf(n \div IdBase, len - 1)

IdOf(n) == DigitsOf(n - 1, IdLen)

\* str.startswith
StartsWith(s, p) == Len(p) <= Len(s) /\ SubSeq(s, 1, Len(p)) = p

RECURSIVE SeqsUpTo(_)
SeqsUpTo(len) ==
  IF len = 0 THEN {<<>>}
  ELSE LET shorter == SeqsUpTo(len - 1)
       IN shorter \cup {s \o <<d>> : s \in {x \in shorter : Len(x) = len - 1}, d \in Digits}

Prefixes == SeqsUpTo(MaxPrefixLen)

\* repo.walk(c): the commits reachable from c, c first, each before its parent.
RECURSIVE Walk(_, _)
Walk(cs, c) ==
  IF c = 0 THEN <<>>
  ELSE <<c>> \o Walk(cs, IF cs[c].parents = <<>> THEN 0 ELSE cs[c].parents[1])

\* next(iter(repo.walk(repo.head.target)))
HeadTarget(rs, h) == rs[h]

TreeOf(cs, c) == IF c = 0 THEN EmptyTree ELSE cs[c].tree

ParentOf(cs, c) == IF cs[c].parents = <<>> THEN 0 ELSE cs[c].parents[1]

\* One file of the three-way merge that a revert is: base is the reverted
\* commit, theirs its parent, ours the commit reverted against.  -1 is a conflict.
MergeFile(base, ours, theirs) ==
  IF ours = base THEN theirs
  ELSE IF theirs = base THEN ours
  ELSE IF ours = theirs THEN ours
  ELSE -1

\* repo.revert_commit(commit, our_commit): an in-memory index holding the
\* result of reverting commit against our_commit; the repository is not touched.
RevertCommit(cs, c, ours) ==
  LET merged == [f \in Files |->
                   MergeFile(cs[c].tree[f], cs[ours].tree[f], TreeOf(cs, ParentOf(cs, c))[f])]
  IN [tree |-> [f \in Files |-> IF merged[f] = -1 THEN cs[ours].tree[f] ELSE merged[f]],
      conflicts |-> \E f \in Files : merged[f] = -1]

\* "Revert {0}".format(commit.message); a message is a sequence of words.
RevertMessage(m) == <<"Revert ">> \o m

MsgWords == <<"m1", "m2", "m3", "m4", "m5">>

\* ------------------------------------------------------------ initial state
NoHash == <<-1>>    \* None
NoIndex == [tree |-> EmptyTree, conflicts |-> FALSE]

InitSelf ==
  [ref |-> NoBranch, commit_hash |-> NoHash, head |-> 0, tmp_branch |-> NoBranch,
   target_commits |-> <<>>]

InitFrame ==
  [pc |-> "idle", mode |-> "none", ref |-> NoBranch, commit_hash |-> <<>>,
   branch |-> NoBranch, walk |-> <<>>, commit |-> 0, index |-> NoIndex,
   attempts |-> <<>>, branches |-> <<>>, err |-> "none"]

InitPre == [refs |-> [b \in BranchNames |-> 0], ncommits |-> 0, HEAD |-> NoBranch]

\* A linear history of 1..MaxInitLen commits on main, main
\* checked out with a clean index and working directory.
Init ==
  \E n \in 1..MaxInitLen :
    \E ts \in [1..n -> Trees] :
      /\ commits = [i \in 1..n |-> [parents |-> IF i = 1 THEN <<>> ELSE <<i - 1>>,
                                message |-> <<MsgWords[i]>>, tree |-> ts[i]]]
      /\ refs = [b \in BranchNames |-> IF b = Main THEN n ELSE 0]
      /\ HEAD = Main
      /\ index = [tree |-> ts[n], conflicts |-> FALSE]
      /\ workdir = ts[n]
      /\ clock = 1
      /\ self = [p \in Procs |-> InitSelf]
      /\ frame = [p \in Procs |-> InitFrame]
      /\ pre = [p \in Procs |-> InitPre]

\* ------------------------------------------------------ repository operations
\* repo.checkout("refs/heads/<b>") of an existing branch: HEAD, index and
\* working directory become the branch's.
Checkout(b) ==
  /\ HEAD' = b
  /\ index' = [tree |-> commits[refs[b]].tree, conflicts |-> FALSE]
  /\ workdir' = commits[refs[b]].tree

\* Variant: the deletion is lost.
BranchDelete_keep(rs, b) == rs

\* repo.branches.local.delete(b)
BranchDelete(rs, b) == [rs EXCEPT ![b] = 0]

SetFrame(p, f) == frame' = [frame EXCEPT ![p] = f]
SetSelf(p, s) == self' = [self EXCEPT ![p] = s]
Fail(p, why) == SetFrame(p, [frame[p] EXCEPT !.pc = "failed", !.err = why])

\* Variant: the tip is taken without looking at its id.
FirstMatch_tip(w, prefix) == IF w = <<>> THEN 0 ELSE Head(w)

\* The first commit of the walk from tip whose id starts with prefix (0: none).
RECURSIVE FirstMatch(_, _)
FirstMatch(w, prefix) ==
  IF w = <<>> THEN 0
  ELSE IF StartsWith(IdOf(Head(w)), prefix) THEN Head(w)
  ELSE FirstMatch(Tail(w), prefix)

\* Variant: a new key goes to the front of the mapping.
DictSet_front(d, k, v) ==
  IF \E i \in 1..Len(d) : d[i][1] = k
  THEN [i \in 1..Len(d) |-> IF d[i][1] = k THEN <<k, v>> ELSE d[i]]
  ELSE <<(<<k, v>>)>> \o d

\* target_commits[k] = v on an OrderedDict kept as a sequence of <<key, value>>.
DictSet(d, k, v) ==
  IF \E i \in 1..Len(d) : d[i][1] = k
  THEN [i \in 1..Len(d) |-> IF d[i][1] = k THEN <<k, v>> ELSE d[i]]
  ELSE Append(d, <<k, v>>)

\* Commits a revert invocation with these arguments will add to the object store.
WillCreate(ref, prefix) ==
  IF refs[ref] # 0 /\ FirstMatch(Walk(commits, refs[ref]), prefix) # 0
  THEN Len(Walk(commits, refs[ref])) ELSE 0

\* ------------------------------------------------------------------ main()
\* main(): parse the arguments and start building the GitReverter.
Invoke(p, mode, ref, commit_hash) ==
  /\ frame[p].pc = "idle"
  /\ mode = "revert" => Len(commits) + WillCreate(ref, commit_hash) <= MaxCommits
  /\ SetFrame(p, [InitFrame EXCEPT !.pc = "init_checkout", !.mode = mode, !.ref = ref,
                                   !.commit_hash = commit_hash])
  /\ pre' = [pre EXCEPT ![p] = [refs |-> refs, ncommits |-> Len(commits), HEAD |-> HEAD]]
  /\ UNCHANGED <<commits, refs, HEAD, index, workdir, clock, self>>

\* The process ends (normally or by the uncaught exception).
Exit(p) ==
  /\ frame[p].pc \in {"done", "failed"}
  /\ SetFrame(p, InitFrame)
  /\ SetSelf(p, InitSelf)
  /\ pre' = [pre EXCEPT ![p] = InitPre]
  /\ UNCHANGED <<commits, refs, HEAD, index, workdir, clock>>

\* ------------------------------------------------------ GitReverter.__init__
\* self.repo.checkout("refs/heads/{0}".format(ref))
Init_checkout(p) ==
  /\ frame[p].pc = "init_checkout"
  /\ IF refs[frame[p].ref] = 0
     THEN /\ Fail(p, "no_ref")
          /\ UNCHANGED <<HEAD, index, workdir>>
     ELSE /\ Checkout(frame[p].ref)
          /\ SetFrame(p, [frame[p] EXCEPT !.pc = "init_walk"])
  /\ UNCHANGED <<commits, refs, clock, self, pre>>

\* Where main() goes once the object is built.
Dispatch(mode) == IF mode = "cleanup" THEN "cleanup_list" ELSE "setup_now"

\* The walk for the commit hash; RuntimeError when no id starts with it.
Init_walk(p) ==
  /\ frame[p].pc = "init_walk"
  /\ IF FirstMatch(Walk(commits, HeadTarget(refs, HEAD)), frame[p].commit_hash) # 0
     THEN /\ SetSelf(p, [self[p] EXCEPT !.commit_hash = frame[p].commit_hash,
                                        !.ref = frame[p].ref])
          /\ SetFrame(p, [frame[p] EXCEPT !.pc = Dispatch(frame[p].mode)])
     ELSE /\ Fail(p, "not_found")
          /\ UNCHANGED self
  /\ UNCHANGED <<commits, refs, HEAD, index, workdir, clock, pre>>

\* ------------------------------------------------- GitReverter.setup_tmp_branch
\* now = datetime.datetime.now(); branch = "git_reverter_<now>"
Setup_now(p) ==
  /\ frame[p].pc = "setup_now"
  /\ \E t \in clock..MaxTime :
       /\ clock' = t
       /\ SetFrame(p, [frame[p] EXCEPT !.pc = "setup_checkout", !.branch = TmpName(t)])
  /\ UNCHANGED <<commits, refs, HEAD, index, workdir, self, pre>>

\* self.repo.checkout("refs/heads/{0}".format(self.ref))
Setup_checkout(p) ==
  /\ frame[p].pc = "setup_checkout"
  /\ IF refs[self[p].ref] = 0
     THEN /\ Fail(p, "no_ref")
          /\ UNCHANGED <<HEAD, index, workdir>>
     ELSE /\ Checkout(self[p].ref)
          /\ SetFrame(p, [frame[p] EXCEPT !.pc = "setup_create"])
  /\ UNCHANGED <<commits, refs, clock, self, pre>>

\* repo.branches.local.create(name, commit): refuses a name that exists.
BranchCreate(rs, b, c) == [rs EXCEPT ![b] = c]

\* Variant: the branch is created with force, a taken name is no obstacle.
BranchExists_force(rs, b) == FALSE

BranchExists(rs, b) == rs[b] # 0

\* head = next(iter(walk(head.target))); tmp_branch = branches.local.create(branch, head)
Setup_create(p) ==
  /\ frame[p].pc = "setup_create"
  /\ IF BranchExists(refs, frame[p].branch) \/ HeadTarget(refs, HEAD) = 0
     THEN /\ Fail(p, "branch_exists")
          /\ UNCHANGED refs
     ELSE /\ refs' = BranchCreate(refs, frame[p].branch, HeadTarget(refs, HEAD))
          /\ SetFrame(p, [frame[p] EXCEPT !.pc = "setup_checkout_tmp"])
  /\ UNCHANGED <<commits, HEAD, index, workdir, clock, self, pre>>

\* Check the temporary branch out, record its name and the head snapshot.
Setup_checkout_tmp(p) ==
  /\ frame[p].pc = "setup_checkout_tmp"
  /\ IF refs[frame[p].branch] = 0
     THEN /\ Fail(p, "no_ref")
          /\ UNCHANGED <<HEAD, index, workdir, self>>
     ELSE /\ Checkout(frame[p].branch)
          /\ SetSelf(p, [self[p] EXCEPT !.tmp_branch = frame[p].branch,
                                        !.head = HeadTarget(refs, frame[p].branch)])
          /\ SetFrame(p, [frame[p] EXCEPT
                            !.pc = IF frame[p].mode = "analyze" THEN "test_walk" ELSE "revert_walk"])
  /\ UNCHANGED <<commits, refs, clock, pre>>

\* -------------------------------------------- GitReverter.test_all_single_revert
\* for commit in self.repo.walk(self.repo.head.target): the walker is built once.
Test_walk(p) ==
  /\ frame[p].pc = "test_walk"
  /\ SetFrame(p, [frame[p] EXCEPT !.pc = "test_loop",
                                  !.walk = Walk(commits, HeadTarget(refs, HEAD))])
  /\ UNCHANGED <<commits, refs, HEAD, index, workdir, clock, self, pre>>

\* Variant: each commit is reverted against itself.
TestBaseline_commit(p) == Head(frame[p].walk)

\* The baseline every attempt of the analysis is made against.
TestBaseline(p) == self[p].head

\* Variant: no conflict is ever recorded.
ConflictFlag_never(idx) == FALSE

\* if index.conflicts: True else: False.  A conflict is a value to record,
\* nothing is raised.
ConflictFlag(idx) == idx.conflicts

\* One iteration: revert the commit in memory against self.head, record the flag.
Test_step(p) ==
  /\ frame[p].pc = "test_loop"
  /\ frame[p].walk # <<>>
  /\ LET commit == Head(frame[p].walk)
         idx == RevertCommit(commits, commit, TestBaseline(p))
     IN /\ SetSelf(p, [self[p] EXCEPT
                         !.target_commits = DictSet(@, commit, ConflictFlag(idx))])
        /\ SetFrame(p, [frame[p] EXCEPT !.walk = Tail(@), !.commit = commit, !.index = idx])
  /\ UNCHANGED <<commits, refs, HEAD, index, workdir, clock, pre>>

\* Variant: the analysis stays on the temporary branch.
RestoreRef_tmp(p) == self[p].tmp_branch

\* Variant: the analysis always goes back to main.
RestoreRef_main(p) == Main

\* The branch the analysis checks out again when the walk is over.
RestoreRef(p) == self[p].ref

\* self.repo.checkout("refs/heads/{0}".format(self.ref))
Test_checkout(p) ==
  /\ frame[p].pc = "test_loop"
  /\ frame[p].walk = <<>>
  /\ IF refs[RestoreRef(p)] = 0
     THEN /\ Fail(p, "no_ref")
          /\ UNCHANGED <<HEAD, index, workdir>>
     ELSE /\ Checkout(RestoreRef(p))
          /\ SetFrame(p, [frame[p] EXCEPT !.pc = "test_delete"])
  /\ UNCHANGED <<commits, refs, clock, self, pre>>

\* self.repo.branches.local.delete(self.tmp_branch); return self.target_commits.
\* The repository refuses to delete the branch that is HEAD.
Test_delete(p) ==
  /\ frame[p].pc = "test_delete"
  /\ IF self[p].tmp_branch = HEAD \/ refs[self[p].tmp_branch] = 0
     THEN /\ Fail(p, "delete")
          /\ UNCHANGED refs
     ELSE /\ refs' = BranchDelete(refs, self[p].tmp_branch)
          /\ SetFrame(p, [frame[p] EXCEPT !.pc = "done"])
  /\ UNCHANGED <<commits, HEAD, index, workdir, clock, self, pre>>

\* ------------------------------------------------ GitReverter.revert_all_reverse
\* for commit in self.repo.walk(self.repo.head.target): the walker is built once.
Revert_walk(p) ==
  /\ frame[p].pc = "revert_walk"
  /\ LET w == Walk(commits, HeadTarget(refs, HEAD))
     IN SetFrame(p, [frame[p] EXCEPT !.pc = IF w = <<>> THEN "done" ELSE "revert_loop",
                                     !.walk = w])
  /\ UNCHANGED <<commits, refs, HEAD, index, workdir, clock, self, pre>>

\* index = self.repo.index: the index whose conflicts the cascade looks at is
\* the repository's own; the one revert_commit returned is dropped.
RevertIndex(attempt, repoIndex) == repoIndex

\* self.repo.revert_commit(commit, new_head); index = self.repo.index;
\* RuntimeError naming the commit when index.conflicts.
Revert_attempt(p) ==
  /\ frame[p].pc = "revert_loop"
  /\ frame[p].walk # <<>>
  /\ LET commit == Head(frame[p].walk)
         new_head == HeadTarget(refs, HEAD)
         attempt == RevertCommit(commits, commit, new_head)
         idx == RevertIndex(attempt, index)
     IN SetFrame(p, [frame[p] EXCEPT
                       !.commit = commit,
                       !.index = idx,
                       !.attempts = Append(@, [commit |-> commit, ours |-> new_head,
                                               tree |-> attempt.tree,
                                               conflicts |-> attempt.conflicts]),
                       !.pc = IF idx.conflicts THEN "failed" ELSE "revert_commit",
                       !.err = IF idx.conflicts THEN "conflict" ELSE "none"])
  /\ UNCHANGED <<commits, refs, HEAD, index, workdir, clock, self, pre>>

\* Variant: the commit is written to the temporary branch, whatever HEAD is.
CurrRef_own(p) == self[p].tmp_branch

\* Variant: the commit is written to the target reference.
CurrRef_target(p) == self[p].ref

\* curr_ref = self.repo.head.name
CurrRef(p) == HEAD

\* Variant: every revert commit is made a child of the head snapshot.
CommitParents_snapshot(p) == <<self[p].head>>

\* parents = [self.repo.head.target]
CommitParents(p) == <<HeadTarget(refs, HEAD)>>

\* Variant: the walk starts again from the head after every commit.
WalkerNext_rewalk(p) == Walk(commits, HeadTarget(refs, HEAD))

\* The walker's next commits: those it was built over that it has not yet
\* yielded; commits made since are not reachable from where it started.
WalkerNext(p) == Tail(frame[p].walk)

\* index.add_all(); index.write(); tree = index.write_tree();
\* repo.create_commit(curr_ref, signature, signature, message, tree, parents)
Revert_commit(p) ==
  /\ frame[p].pc = "revert_commit"
  /\ LET commit == frame[p].commit
         message == RevertMessage(commits[commit].message)
         staged == [tree |-> workdir, conflicts |-> FALSE]
         new == [parents |-> CommitParents(p), message |-> message, tree |-> staged.tree]
         rest == WalkerNext(p)
     IN /\ index' = staged
        /\ commits' = Append(commits, new)
        /\ refs' = [refs EXCEPT ![CurrRef(p)] = Len(commits) + 1]
        /\ SetFrame(p, [frame[p] EXCEPT !.walk = rest, !.index = staged,
                                        !.pc = IF rest = <<>> THEN "done" ELSE "revert_loop"])
  /\ UNCHANGED <<HEAD, workdir, clock, self, pre>>

\* -------------------------------------------------- GitReverter.cleanup_branches
\* for branch in self.repo.branches.local: the names are listed once.
Cleanup_list(p) ==
  /\ frame[p].pc = "cleanup_list"
  /\ LET bs == ListBranches(refs)
     IN SetFrame(p, [frame[p] EXCEPT !.branches = bs,
                                     !.pc = IF bs = <<>> THEN "done" ELSE "cleanup_loop"])
  /\ UNCHANGED <<commits, refs, HEAD, index, workdir, clock, self, pre>>

\* One iteration: delete the branch if its name starts with git_reverter_.
\* The repository refuses to delete the branch that is HEAD.
Cleanup_step(p) ==
  /\ frame[p].pc = "cleanup_loop"
  /\ LET branch == Head(frame[p].branches)
         rest == Tail(frame[p].branches)
     IN IF IsTmpBranch(branch)
        THEN IF branch = HEAD \/ refs[branch] = 0
             THEN /\ Fail(p, "delete")
                  /\ UNCHANGED refs
             ELSE /\ refs' = BranchDelete(refs, branch)
                  /\ SetFrame(p, [frame[p] EXCEPT
                                    !.branches = rest,
                                    !.pc = IF rest = <<>> THEN "done" ELSE "cleanup_loop"])
        ELSE /\ SetFrame(p, [frame[p] EXCEPT
                               !.branches = rest,
                               !.pc = IF rest = <<>> THEN "done" ELSE "cleanup_loop"])
             /\ UNCHANGED refs
  /\ UNCHANGED <<commits, HEAD, index, workdir, clock, self, pre>>

\* --------------------------------------------------------------- specifications
Modes == {"analyze", "revert", "cleanup"}

Step(p) ==
  \/ \E mode \in Modes, ref \in BranchNames, commit_hash \in Prefixes :
       Invoke(p, mode, ref, commit_hash)
  \/ Init_checkout(p)
  \/ Init_walk(p)
  \/ Setup_now(p)
  \/ Setup_checkout(p)
  \/ Setup_create(p)
  \/ Setup_checkout_tmp(p)
  \/ Test_walk(p)
  \/ Test_step(p)
  \/ Test_checkout(p)
  \/ Test_delete(p)
  \/ Revert_walk(p)
  \/ Revert_attempt(p)
  \/ Revert_commit(p)
  \/ Cleanup_list(p)
  \/ Cleanup_step(p)
  \/ Exit(p)

\* One process: invocations run one after the other.
Next == Step(1)

Spec == Init /\ [][Next]_vars

\* The steps of an analyze invocation once main() has started it.
AnalyzeStep(p) ==
  \/ Init_checkout(p)
  \/ Init_walk(p)
  \/ Setup_now(p)
  \/ Setup_checkout(p)
  \/ Setup_create(p)
  \/ Setup_checkout_tmp(p)
  \/ Test_walk(p)
  \/ Test_step(p)
  \/ Test_checkout(p)
  \/ Test_delete(p)

\* Two analyses in a row: process 1 runs invocations one after the other; once
\* an analyze of it has returned, process 2 may run one analyze of the same
\* reference and commit, after which nothing else happens.
NextTwice ==
  \/ frame[2].pc = "idle" /\ Step(1)
  \/ /\ frame[1].mode = "analyze"
     /\ frame[1].pc = "done"
     /\ \/ Invoke(2, "analyze", frame[1].ref, frame[1].commit_hash)
        \/ AnalyzeStep(2)

SpecTwice == Init /\ [][NextTwice]_vars

\* The steps of a revert invocation once main() has started it.
RevertStep(p) ==
  \/ Init_checkout(p)
  \/ Init_walk(p)
  \/ Setup_now(p)
  \/ Setup_checkout(p)
  \/ Setup_create(p)
  \/ Setup_checkout_tmp(p)
  \/ Revert_walk(p)
  \/ Revert_attempt(p)
  \/ Revert_commit(p)

\* Two processes on the same repository, nothing orders their steps: process 1
\* runs one revert of main, process 2 one analyze or cleanup of main from its tip.
NextConc ==
  \/ \E commit_hash \in Prefixes : Invoke(1, "revert", Main, commit_hash)
  \/ RevertStep(1)
  \/ \E mode \in {"analyze", "cleanup"} : Invoke(2, mode, Main, <<>>)
  \/ AnalyzeStep(2)
  \/ Cleanup_list(2)
  \/ Cleanup_step(2)

SpecConc == Init /\ [][NextConc]_vars

\* ------------------------------------------------------------------- claims
Range(s) == {s[i] : i \in 1..Len(s)}

\* The commits the invocation of p has added to the object store.
Created(p) == (pre[p].ncommits + 1)..Len(commits)

\* The history the target reference had when the invocation of p began.
Walk0(p) == Walk(commits, pre[p].refs[frame[p].ref])

Running(p, mode) == frame[p].mode = mode /\ frame[p].pc # "idle"
Finished(p, mode) == frame[p].mode = mode /\ frame[p].pc = "done"
Ended(p, mode) == frame[p].mode = mode /\ frame[p].pc \in {"done", "failed"}

\* C1: throughout a revert invocation, and so on every exit of it, the target
\* reference points at the commit it pointed at when the invocation began, and
\* every commit the invocation has created is on the temporary branch it opened.
C1_RevertLeavesTargetRef ==
  \A p \in Procs :
    Running(p, "revert") =>
      /\ refs[frame[p].ref] = pre[p].refs[frame[p].ref]
      /\ \A c \in Created(p) :
           /\ frame[p].branch # frame[p].ref
           /\ c \in Range(Walk(commits, refs[frame[p].branch]))

\* A revert invocation has ended after creating commits.
C1_Witness ==
  \E p \in Procs : Ended(p, "revert") /\ Created(p) # {}

\* C2: when analyze has returned, the target reference is the checked-out
\* reference and points at the commit it pointed at before; no state of an
\* analyze invocation has a commit the invocation created.
C2_AnalyzeRestoresTargetRef ==
  \A p \in Procs :
    /\ Running(p, "analyze") => Created(p) = {}
    /\ Finished(p, "analyze") =>
         /\ HEAD = frame[p].ref
         /\ refs[frame[p].ref] = pre[p].refs[frame[p].ref]

\* analyze has returned on a target reference that was not checked out before.
C2_Witness ==
  \E p \in Procs :
    /\ Finished(p, "analyze")
    /\ pre[p].HEAD # frame[p].ref
    /\ self[p].target_commits # <<>>

\* The revert attempts of p so far have all been clean.
ConflictFree(p) ==
  \A i \in 1..Len(frame[p].attempts) : ~frame[p].attempts[i].conflicts

\* The tree before the first commit of the history p walks.
TreeBeforeWalk(p) ==
  LET w == Walk0(p) IN TreeOf(commits, ParentOf(commits, w[Len(w)]))

\* C3: when a revert over a history whose attempts were all clean has
\* succeeded, the tree of the temporary branch's tip is the tree that precedes
\* the reverted commits, and the tree committed at each step is the tree the
\* revert attempt of that step produced.
C3_FinalTreeIsFullUndo ==
  \A p \in Procs :
    (Finished(p, "revert") /\ ConflictFree(p)) =>
      /\ commits[refs[self[p].tmp_branch]].tree = TreeBeforeWalk(p)
      /\ \A i \in 1..Len(frame[p].attempts) :
           commits[pre[p].ncommits + i].tree = frame[p].attempts[i].tree

\* C4: when the revert attempt of commit Ck has reported a conflict, the
\* cascade has stopped with the conflict error naming Ck, having created one
\* commit for each commit attempted before Ck and none for Ck.
C4_ConflictAbortsCascade ==
  \A p \in Procs :
    LET a == frame[p].attempts IN
    (Running(p, "revert") /\ a # <<>> /\ a[Len(a)].conflicts) =>
      /\ frame[p].pc = "failed"
      /\ frame[p].err = "conflict"
      /\ frame[p].commit = a[Len(a)].commit
      /\ Cardinality(Created(p)) = Len(a) - 1

\* C5: the commits a revert with clean attempts creates form a chain: the
\* i-th has the message "Revert " + the message of the i-th walked commit and
\* exactly one parent, the target's tip for the first and the previous new
\* commit afterwards; when the revert has succeeded there are as many of them
\* as walked commits and the temporary branch points at the last.
C5_RevertChain ==
  \A p \in Procs :
    (Running(p, "revert") /\ ConflictFree(p)) =>
      /\ \A i \in 1..Cardinality(Created(p)) :
           LET c == commits[pre[p].ncommits + i] IN
           /\ c.message = <<"Revert ">> \o commits[Walk0(p)[i]].message
           /\ c.parents = <<IF i = 1 THEN pre[p].refs[frame[p].ref]
                                     ELSE pre[p].ncommits + i - 1>>
      /\ Finished(p, "revert") =>
           /\ Cardinality(Created(p)) = Len(Walk0(p))
           /\ refs[self[p].tmp_branch] = pre[p].ncommits + Len(Walk0(p))

\* A revert over two or more commits has succeeded with every attempt clean.
C5_Witness ==
  \E p \in Procs :
    Finished(p, "revert") /\ ConflictFree(p) /\ Len(Walk0(p)) >= 2

\* The commit the command line's hash prefix names: the first match of the walk.
TargetCommit(p) == FirstMatch(Walk0(p), self[p].commit_hash)

\* c comes after the target commit in the walk of p.
OlderThanTarget(p, c) ==
  LET w == Walk0(p)
      pos(x) == CHOOSE i \in 1..Len(w) : w[i] = x
  IN pos(c) > pos(TargetCommit(p))

Keys(d) == [i \in 1..Len(d) |-> d[i][1]]

C7_WalkStopsAtTarget ==
  \A p \in Procs :
    self[p].commit_hash # NoHash =>
      /\ \A i \in 1..Len(self[p].target_commits) :
           ~OlderThanTarget(p, self[p].target_commits[i][1])
      /\ \A i \in 1..Len(frame[p].attempts) :
           ~OlderThanTarget(p, frame[p].attempts[i].commit)

TmpBranches(rs) == {b \in BranchNames : IsTmpBranch(b) /\ rs[b] # 0}

\* C8: when analyze has returned, the temporary branch it created is gone and
\* the temporary branches are those that existed before the run.
C8_AnalyzeDeletesItsBranch ==
  \A p \in Procs :
    Finished(p, "analyze") =>
      /\ refs[self[p].tmp_branch] = 0
      /\ pre[p].refs[self[p].tmp_branch] = 0
      /\ TmpBranches(refs) = TmpBranches(pre[p].refs)

\* analyze has returned in a repository that holds an earlier temporary branch.
C8_Witness ==
  \E p \in Procs :
    /\ Finished(p, "analyze")
    /\ self[p].tmp_branch # NoBranch
    /\ TmpBranches(pre[p].refs) # {}

\* C9: a cleanup invocation that was given an existing reference and a commit
\* prefix found on it ends without error and leaves no temporary branch.
C9_CleanupLeavesNoTmpBranch ==
  \A p \in Procs :
    (Ended(p, "cleanup") /\ self[p].ref # NoBranch) =>
      /\ frame[p].pc = "done"
      /\ TmpBranches(refs) = {}

\* C10: a cleanup invocation whose commit prefix matches no commit of the
\* given reference has deleted every temporary branch all the same.
C10_CleanupWhateverCommit ==
  \A p \in Procs :
    ( /\ Ended(p, "cleanup")
      /\ pre[p].refs[frame[p].ref] # 0
      /\ FirstMatch(Walk0(p), frame[p].commit_hash) = 0 ) =>
      TmpBranches(refs) = {}

\* No id of the history the target reference had starts with the given prefix.
NoMatch(p) ==
  \A c \in Range(Walk0(p)) : ~StartsWith(IdOf(c), frame[p].commit_hash)

\* C11: an invocation, of any mode, whose commit prefix matches no commit of
\* the given reference never gets past the constructor, ends with the
\* not-found error, and creates, deletes or moves no branch and creates no commit.
C11_NotFoundFailsAtStartup ==
  \A p \in Procs :
    (frame[p].pc # "idle" /\ pre[p].refs[frame[p].ref] # 0 /\ NoMatch(p)) =>
      /\ frame[p].pc \in {"init_checkout", "init_walk", "failed"}
      /\ frame[p].pc = "failed" => frame[p].err = "not_found"
      /\ refs = pre[p].refs
      /\ Created(p) = {}

\* A cleanup invocation has ended with the not-found error while a temporary
\* branch exists.
C11_Witness ==
  \E p \in Procs :
    /\ Ended(p, "cleanup")
    /\ NoMatch(p)
    /\ frame[p].err = "not_found"
    /\ \E b \in BranchNames : b[1] = "git_reverter_" /\ refs[b] # 0

\* C12: when the name setup_tmp_branch has chosen is the name of a branch that
\* exists already, the invocation ends with an error at the creation: the
\* existing branch keeps its tip and the invocation creates no commit.
C12_NameCollisionFails ==
  \A p \in Procs :
    (frame[p].branch # NoBranch /\ pre[p].refs[frame[p].branch] # 0) =>
      /\ frame[p].pc \in {"setup_checkout", "setup_create", "failed"}
      /\ frame[p].pc = "failed" => frame[p].err = "branch_exists"
      /\ refs[frame[p].branch] = pre[p].refs[frame[p].branch]
      /\ Created(p) = {}

\* A revert invocation has ended at the creation of a branch whose name was taken.
C12_Witness ==
  \E p \in Procs :
    /\ Ended(p, "revert")
    /\ frame[p].err = "branch_exists"
    /\ pre[p].refs[frame[p].branch] # 0

\* C13: two analyses in a row of the same reference return the same mapping,
\* and each flag is the outcome of reverting that commit against the tip the
\* reference had when the temporary branch was made, whatever else was walked.
C13_AnalyzeTwiceSameFlags ==
  /\ (Finished(1, "analyze") /\ Finished(2, "analyze")) =>
       self[1].target_commits = self[2].target_commits
  /\ \A p \in Procs :
       Finished(p, "analyze") =>
         \A i \in 1..Len(self[p].target_commits) :
           self[p].target_commits[i][2] =
             RevertCommit(commits, self[p].target_commits[i][1],
                          pre[p].refs[frame[p].ref]).conflicts

\* Both analyses have returned, with a conflict among the flags of a walk of
\* two or more commits.
C13_Witness ==
  /\ Finished(1, "analyze")
  /\ Finished(2, "analyze")
  /\ Len(self[2].target_commits) >= 2
  /\ \E i \in 1..Len(self[2].target_commits) : self[2].target_commits[i][2]

\* C14: an analyze whose temporary branch is open never ends in an error, a
\* conflict is never an error of analyze, and when analyze has returned the
\* flag of each commit tells whether reverting it against the head snapshot
\* conflicts in some file, and the temporary branch is gone.
C14_AnalyzeRecordsConflicts ==
  \A p \in Procs :
    frame[p].mode = "analyze" =>
      /\ frame[p].err # "conflict"
      /\ self[p].tmp_branch # NoBranch => frame[p].pc # "failed"
      /\ frame[p].pc = "done" =>
           /\ refs[self[p].tmp_branch] = 0
           /\ \A i \in 1..Len(self[p].target_commits) :
                LET c == self[p].target_commits[i][1]
                    tip == pre[p].refs[frame[p].ref]
                IN self[p].target_commits[i][2] =
                     (\E f \in Files :
                        /\ commits[tip].tree[f] # commits[c].tree[f]
                        /\ TreeOf(commits, ParentOf(commits, c))[f] # commits[c].tree[f]
                        /\ commits[tip].tree[f] # TreeOf(commits, ParentOf(commits, c))[f])

\* analyze has returned with a conflicting and a clean commit in its mapping.
C14_Witness ==
  \E p \in Procs :
    /\ Finished(p, "analyze")
    /\ \E i, j \in 1..Len(self[p].target_commits) :
         self[p].target_commits[i][2] /\ ~self[p].target_commits[j][2]

\* C16: when analyze is about to delete its temporary branch, the target
\* reference is the checked-out one and the temporary branch is not; the
\* deletion is never refused.
C16_TargetCheckedOutBeforeDelete ==
  \A p \in Procs :
    frame[p].mode = "analyze" =>
      /\ frame[p].err # "delete"
      /\ frame[p].pc = "test_delete" =>
           /\ HEAD = self[p].ref
           /\ HEAD # self[p].tmp_branch
           /\ refs[self[p].tmp_branch] # 0

\* analyze is about to delete its temporary branch.
C16_Witness ==
  \E p \in Procs : frame[p].mode = "analyze" /\ frame[p].pc = "test_delete"

\* C17: when a revert that opened its temporary branch has ended, the branch
\* exists, is checked out and points at the last commit the revert created
\* (the target's tip if it created none).
C17_RevertLeavesTmpBranch ==
  \A p \in Procs :
    (Ended(p, "revert") /\ self[p].tmp_branch # NoBranch) =>
      /\ refs[self[p].tmp_branch] # 0
      /\ HEAD = self[p].tmp_branch
      /\ refs[self[p].tmp_branch] =
           IF Created(p) = {} THEN pre[p].refs[frame[p].ref] ELSE Len(commits)

\* A revert has ended after its cascade created two or more commits.
C17_Witness ==
  \E p \in Procs :
    /\ Ended(p, "revert")
    /\ self[p].tmp_branch # NoBranch
    /\ Cardinality(Created(p)) >= 2

\* C18: the commits a cascade has attempted followed by those it has still to
\* walk are the history the target had when the walk began: no commit the
\* cascade created is walked, and a cascade over N commits makes at most N
\* attempts, the last of which ends it.
C18_CascadeWalkIsFixed ==
  \A p \in Procs :
    (frame[p].mode = "revert" /\ frame[p].pc \in {"revert_loop", "revert_commit", "done"}) =>
      LET a == frame[p].attempts
          todo == IF frame[p].pc = "revert_commit" THEN Tail(frame[p].walk)
                  ELSE frame[p].walk
      IN /\ [i \in 1..Len(a) |-> a[i].commit] \o todo = Walk0(p)
         /\ Range(todo) \cap Created(p) = {}
         /\ Len(a) <= Len(Walk0(p))
         /\ frame[p].pc = "done" <=> (Len(a) = Len(Walk0(p)) /\ todo = <<>>
                                       /\ Cardinality(Created(p)) = Len(a))

\* A cascade over two or more commits has ended.
C18_Witness ==
  \E p \in Procs :
    /\ Finished(p, "revert")
    /\ Len(frame[p].attempts) >= 2
    /\ Created(p) # {}

\* C19: in every state of a cleanup invocation each branch whose name does not
\* start with git_reverter_ points where it pointed before, no branch was
\* created or moved, and no commit was created.
C19_CleanupDeletesOnlyTmpBranches ==
  \A p \in Procs :
    Running(p, "cleanup") =>
      /\ \A b \in BranchNames :
           /\ b[1] # "git_reverter_" => refs[b] = pre[p].refs[b]
           /\ refs[b] \in {0, pre[p].refs[b]}
      /\ Created(p) = {}

\* A cleanup has ended after deleting a temporary branch.
C19_Witness ==
  \E p \in Procs :
    /\ Ended(p, "cleanup")
    /\ \E b \in BranchNames : pre[p].refs[b] # 0 /\ refs[b] = 0

\* C15: with two invocations on one repository, a revert commit is written to
\* the branch that is HEAD at that moment, whichever process checked it out:
\* the step that creates it moves that branch and no other.
C15_CommitGoesToSharedHead ==
  [][\A p \in Procs :
       Revert_commit(p) =>
         /\ refs'[HEAD] = Len(commits) + 1
         /\ \A b \in BranchNames \ {HEAD} : refs'[b] = refs[b]]_vars

\* The interleaving the claim names: while the cascade of process 1 runs,
\* process 2 has checked main out, and a revert commit of process 1 has
\* advanced main, which is not the temporary branch process 1 made.
C15_Witness ==
  /\ frame[1].mode = "revert"
  /\ self[1].tmp_branch # NoBranch
  /\ self[1].tmp_branch # Main
  /\ frame[2].pc # "idle"
  /\ refs[Main] # pre[1].refs[Main]
  /\ refs[Main] \in Created(1)

====
